---- MODULE Spec2Model ----
(***************************************************************************)
(* Model of the merge pipeline of backend/src/media.js                     *)
(* (mergeVideosWithMusic and its helpers) and of the POST /merge handler   *)
(* of backend/src/index.js.  Two requests are served concurrently by the   *)
(* same Node process: every `await` of the source is a point where the     *)
(* other request may run, and the three directories uploads/, temp/ and    *)
(* outputs/ are one file system shared by both.                            *)
(***************************************************************************)
EXTENDS Integers, Sequences, FiniteSets, TLC

\* ------------------------------------------------------------------ bounds
\* Largest number of video parts one request of the model uploads.
MaxVideos == 2

\* The concurrent requests of the model.
Jobs == {"A", "B"}

\* ---------------------------------------------------------------- constants
\* validateVideos: videoStream.width > 3840 || videoStream.height > 2160
MaxWidth == 3840
MaxHeight == 2160

\* upload.fields([{ name: "videos", maxCount: 20 }, { name: "music", maxCount: 1 }])
maxVideoCount == 20
maxMusicCount == 1

\* ------------------------------------------------------------------- paths
\* A path is a directory, the unique multer suffix (uploads only; "-" for
\* the fixed names of temp/ and outputs/), a base name and an index.
MkPath(d, u, n, k) == [dir |-> d, uniq |-> u, name |-> n, idx |-> k]

\* A storage that names the uploads by field and position alone.
UploadPathShared(j, field, k) == MkPath("uploads", "-", field, k)

\* multer diskStorage: uploads/<Date.now()-random><ext>, one per uploaded file
UploadPath(j, field, k) == MkPath("uploads", j, field, k)

\* One processed file for all videos.
ProcessedPathShared(k) == MkPath("temp", "-", "processed", 0)

\* path.join(TEMP_DIR, `processed_${i}.mp4`)
ProcessedPath(k) == MkPath("temp", "-", "processed", k)

\* path.join(TEMP_DIR, "filelist.txt")
listPath == MkPath("temp", "-", "filelist.txt", 0)

\* path.join(TEMP_DIR, "concatenated.mp4")
concatenatedPath == MkPath("temp", "-", "concatenated.mp4", 0)

\* path.join(OUTPUT_DIR, "merged.mp4")
outputPath == MkPath("outputs", "-", "merged.mp4", 0)

TempPaths == {ProcessedPath(k) : k \in 0..(MaxVideos - 1)} \cup {listPath, concatenatedPath}

UploadPaths == {UploadPath(j, "videos", k) : j \in Jobs, k \in 0..(MaxVideos - 1)}
                 \cup {UploadPath(j, "music", 0) : j \in Jobs}

Paths == TempPaths \cup {outputPath} \cup UploadPaths

\* ------------------------------------------------------------------- files
\* What a file holds: who wrote it, whether the writer finished, and the
\* media it carries (the uploads it was made from, in playback order; for
\* the manifest, the listed paths).
NoFile == [exists |-> FALSE, by |-> "-", complete |-> FALSE, data |-> <<>>]

MkFile(j, c, d) == [exists |-> TRUE, by |-> j, complete |-> c, data |-> d]

\* The engine can read a file that is there and whose writer finished.
Readable(f) == f.exists /\ f.complete

\* One uploaded file as multer hands it to the handler (file.path,
\* file.originalname).
OriginalName(j, field, k) == [job |-> j, field |-> field, idx |-> k]

NoName == [job |-> "-", field |-> "-", idx |-> 0]

UploadedFile(j, field, k) == [path |-> UploadPath(j, field, k), originalname |-> OriginalName(j, field, k)]

NoUpload == [path |-> MkPath("-", "-", "-", 0), originalname |-> NoName]

\* --------------------------------------------------------------- metadata
\* ffprobe results the model draws from: err is the callback's error, streams
\* the list of stream descriptors.
Stream(t, c, w, h) == [codec_type |-> t, codec_name |-> c, width |-> w, height |-> h]

Probed(s) == [err |-> FALSE, streams |-> s]

ProbeFailed == [err |-> TRUE, streams |-> <<>>]

VideoMetadataSet ==
  { ProbeFailed,
    Probed(<<>>),
    Probed(<<Stream("audio", "aac", 0, 0)>>),
    Probed(<<Stream("audio", "aac", 0, 0), Stream("video", "h264", 1920, 1080)>>),
    Probed(<<Stream("video", "vp6", 640, 480)>>),
    Probed(<<Stream("video", "h264", 3840, 2160)>>),
    Probed(<<Stream("video", "hevc", 4096, 2160)>>),
    Probed(<<Stream("video", "vp9", 3840, 2161)>>) }

MusicMetadataSet ==
  { ProbeFailed,
    Probed(<<Stream("video", "h264", 640, 480)>>),
    Probed(<<Stream("video", "h264", 640, 480), Stream("audio", "mp3", 0, 0)>>),
    Probed(<<Stream("audio", "flac", 0, 0)>>),
    Probed(<<Stream("audio", "opus", 0, 0)>>) }

\* metadata.streams.find(s => s.codec_type === t): index of the first stream
\* of that kind, 0 when there is none.
RECURSIVE FindFrom(_, _, _)
FindFrom(streams, t, k) ==
  IF k > Len(streams) THEN 0
  ELSE IF streams[k].codec_type = t THEN k
  ELSE FindFrom(streams, t, k + 1)

FindStream(streams, t) == FindFrom(streams, t, 1)

supportedVideoCodecs == {"h264", "hevc", "vp8", "vp9"}

supportedAudioCodecs == {"aac", "mp3", "opus", "vorbis"}

\* The message of an Error: its fixed text and the display name it embeds
\* (NoName when the text embeds none).
Message(t, n) == [text |-> t, name |-> n]

NoError == Message("", NoName)

\* The error ffprobe / ffmpeg hands to the callback; its text is the
\* engine's, the code adds nothing to it.
EngineError == Message("engine error", NoName)

\* fs.writeFile rejection
WriteError == Message("write error", NoName)

\* A ceiling that excludes 3840 and 2160 themselves.
ResolutionTooHighAtCeiling(stream) == stream.width >= MaxWidth \/ stream.height >= MaxHeight

\* if (videoStream.width > 3840 || videoStream.height > 2160)
ResolutionTooHigh(stream) == stream.width > MaxWidth \/ stream.height > MaxHeight

\* A validateVideos that checks the resolution before the codec.
ValidateVideoResolutionFirst(md, file) ==
  IF md.err THEN EngineError
  ELSE LET k == FindStream(md.streams, "video") IN
    IF k = 0 THEN Message("No video stream found in", file.originalname)
    ELSE IF ResolutionTooHigh(md.streams[k])
      THEN Message("Video resolution too high in", file.originalname)
    ELSE IF md.streams[k].codec_name \notin supportedVideoCodecs
      THEN Message("Unsupported video codec in", file.originalname)
    ELSE NoError

\* Body of the validateVideos loop for one file: NoError when the file passes.
ValidateVideo(md, file) ==
  IF md.err THEN EngineError
  ELSE LET k == FindStream(md.streams, "video") IN
    IF k = 0 THEN Message("No video stream found in", file.originalname)
    ELSE IF md.streams[k].codec_name \notin supportedVideoCodecs
      THEN Message("Unsupported video codec in", file.originalname)
    ELSE IF ResolutionTooHigh(md.streams[k])
      THEN Message("Video resolution too high in", file.originalname)
    ELSE NoError

\* A validateMusic that takes any audio codec.
ValidateMusicAnyCodec(md, file) ==
  IF md.err THEN EngineError
  ELSE LET k == FindStream(md.streams, "audio") IN
    IF k = 0 THEN Message("No audio stream found in", file.originalname)
    ELSE NoError

\* Body of validateMusic.
ValidateMusic(md, file) ==
  IF md.err THEN EngineError
  ELSE LET k == FindStream(md.streams, "audio") IN
    IF k = 0 THEN Message("No audio stream found in", file.originalname)
    ELSE IF md.streams[k].codec_name \notin supportedAudioCodecs
      THEN Message("Unsupported audio codec in", file.originalname)
    ELSE NoError

\* A validation whose errors are logged and not thrown.
ThrowsNever(verdict) == FALSE

\* `throw new Error(...)` / `throw err` inside the validation try blocks: a
\* verdict other than NoError leaves the function.
Throws(verdict) == verdict # NoError


\* ------------------------------------------------------------------ errors
\* catch (error) { throw new Error(`Video merge failed: ${error.message}`) }
WrapError(m) == [prefix |-> "Video merge failed: ", cause |-> m]

NoWrapped == [prefix |-> "", cause |-> NoError]

NoPath == MkPath("-", "-", "-", 0)

\* What mergeVideosWithMusic has handed back to the handler so far.
Pending == [status |-> "pending", path |-> NoPath, message |-> NoWrapped]

Returned(p) == [status |-> "returned", path |-> p, message |-> NoWrapped]

\* A catch that swallows the error and hands back the output path.
ThrownAsReturned(m) == Returned(MkPath("outputs", "-", "merged", 0))

Thrown(m) == [status |-> "thrown", path |-> NoPath, message |-> WrapError(m)]

\* The HTTP response of the handler: status code, error text, details.
NoResponse == [code |-> 0, error |-> "", details |-> NoWrapped]

Response(c, e, d) == [code |-> c, error |-> e, details |-> d]

\* One run of the external engine: which stage started it and for which
\* input index.
Invocation(kind, k) == [kind |-> kind, idx |-> k]

\* How many files a request carried in its "videos" and "music" fields.
Counts(n, mc) == [videos |-> n, music |-> mc]

NoCounts == Counts(0, 0)

\* The durations of one mux run: of its video input, of its audio input and
\* of its output, in seconds.
Times(dv, da, out) == [video |-> dv, audio |-> da, out |-> out]

NoTimes == Times(0, 0, 0)

\* The metadata the validation-only specification makes ffprobe return for
\* the videos and for the music file.
ProbeInput(v, m) == [video |-> v, music |-> m]

NoProbeInput == ProbeInput(ProbeFailed, ProbeFailed)

\* The stream descriptors the validation-only specification draws from:
\* video streams of listed and unlisted codecs with widths and heights
\* below, at and above the ceiling, and audio streams of listed and unlisted
\* codecs.
VideoStreams ==
  {Stream("video", c, w, h) : c \in {"h264", "hevc", "vp8", "vp9", "vp6"},
                              w \in {1920, 3840, 3841, 4096},
                              h \in {1080, 2160, 2161}}

AudioStreams == {Stream("audio", c, 0, 0) : c \in {"aac", "mp3", "opus", "vorbis", "flac"}}

\* Every ffprobe result of at most two such streams, and the failed probe.
ProbeResults ==
  LET streams == VideoStreams \cup AudioStreams
  IN {ProbeFailed} \cup {Probed(<<>>)} \cup {Probed(<<s>>) : s \in streams}
       \cup {Probed(<<s, t>>) : s, t \in streams}

\* Any result for the videos with a music file that passes, and any result
\* for the music file with videos that pass.
ProbeInputs ==
  {ProbeInput(v, Probed(<<Stream("audio", "aac", 0, 0)>>)) : v \in ProbeResults}
    \cup {ProbeInput(Probed(<<Stream("video", "h264", 1920, 1080)>>), m) : m \in ProbeResults}

\* ------------------------------------------------------------------- state
VARIABLES
  fs,               \* the shared file system: path -> file
  pc,               \* where each request's handler is
  videoFiles,       \* req.files["videos"] of each request
  musicFile,        \* req.files["music"]?.[0] of each request
  i,                \* loop index of the running loop (validateVideos, then the processVideo loop)
  processedVideos,  \* the processedVideos array of each request
  running,          \* engine invocations of each request that have started and not ended
  probeLog,         \* history: the files each request has probed, with the verdict
  invoked,          \* history: the encode invocations each request has started, in order
  touched,          \* history: the temp paths each request has written, read or unlinked
  unlinked,         \* history: the paths each request has called fs.unlink on
  unlinkFailed,     \* history: the paths on which a request's fs.unlink was rejected
  succeeded,        \* history: the encode invocations of each request that ended without error
  muxed,            \* history: the media the request's own mux invocation wrote
  result,           \* what mergeVideosWithMusic returned or threw
  response,         \* the HTTP response sent
  submitted,        \* history: how many video and music files each request carried
  muxedTimes,       \* history: the durations the request's own mux invocation read and wrote
  probeInput        \* the metadata ffprobe returns in the validation-only specification

vars == <<fs, pc, videoFiles, musicFile, i, processedVideos, running, probeLog,
          invoked, succeeded, touched, unlinked, unlinkFailed, muxed, result, response,
          submitted, muxedTimes, probeInput>>

\* Nothing has been received yet.
InitPipeline ==
  /\ fs = [p \in Paths |-> NoFile]
  /\ pc = [j \in Jobs |-> "idle"]
  /\ videoFiles = [j \in Jobs |-> <<>>]
  /\ musicFile = [j \in Jobs |-> NoUpload]
  /\ i = [j \in Jobs |-> 0]
  /\ processedVideos = [j \in Jobs |-> <<>>]
  /\ running = [j \in Jobs |-> {}]
  /\ probeLog = [j \in Jobs |-> <<>>]
  /\ invoked = [j \in Jobs |-> <<>>]
  /\ succeeded = [j \in Jobs |-> {}]
  /\ touched = [j \in Jobs |-> {}]
  /\ unlinked = [j \in Jobs |-> {}]
  /\ unlinkFailed = [j \in Jobs |-> {}]
  /\ muxed = [j \in Jobs |-> <<>>]
  /\ result = [j \in Jobs |-> Pending]
  /\ response = [j \in Jobs |-> NoResponse]
  /\ submitted = [j \in Jobs |-> NoCounts]
  /\ muxedTimes = [j \in Jobs |-> NoTimes]

Init ==
  /\ InitPipeline
  /\ probeInput = NoProbeInput

\* The catch block of mergeVideosWithMusic followed by the catch block of the
\* handler: the wrapped error is thrown and answered with a 500; neither
\* block unlinks anything.
Throw(j, m) ==
  /\ pc' = [pc EXCEPT ![j] = "failed"]
  /\ result' = [result EXCEPT ![j] = Thrown(m)]
  /\ response' = [response EXCEPT ![j] = Response(500, "Merge failed", WrapError(m))]

\* A route without maxCount.
WithinLimitsAlways(n, mc) == TRUE

\* The upload.fields middleware of the route: more files in a field than its
\* maxCount make multer fail the request before the handler runs.
WithinLimits(n, mc) == n <= maxVideoCount /\ mc <= maxMusicCount

\* A request with n files in "videos" and mc files in "music" arrives.  Over
\* the limits multer hands an error to the error middleware, which answers
\* 500, and the handler never runs.  Otherwise multer has stored the uploaded
\* files; the handler checks that there is at least one video and a music
\* file and calls mergeVideosWithMusic.
ReceiveRequest(j, n, mc) ==
  /\ pc[j] = "idle"
  /\ submitted' = [submitted EXCEPT ![j] = Counts(n, mc)]
  /\ IF ~WithinLimits(n, mc)
       THEN /\ pc' = [pc EXCEPT ![j] = "rejected"]
            /\ response' = [response EXCEPT ![j] = Response(500, "Internal server error", NoWrapped)]
            /\ UNCHANGED <<fs, videoFiles, musicFile>>
       ELSE /\ fs' = [p \in Paths |->
                       IF \/ \E k \in 0..(n - 1) : p = UploadPath(j, "videos", k)
                          \/ mc >= 1 /\ p = UploadPath(j, "music", 0)
                         THEN MkFile(j, TRUE, <<OriginalName(j, p.name, p.idx)>>)
                       ELSE fs[p]]
            /\ videoFiles' = [videoFiles EXCEPT ![j] = [k \in 1..n |-> UploadedFile(j, "videos", k - 1)]]
            /\ musicFile' = [musicFile EXCEPT ![j] =
                               IF mc >= 1 THEN UploadedFile(j, "music", 0) ELSE NoUpload]
            /\ IF n = 0
                 THEN /\ pc' = [pc EXCEPT ![j] = "rejected"]
                      /\ response' = [response EXCEPT ![j] =
                                        Response(400, "No video files uploaded", NoWrapped)]
               ELSE IF mc = 0
                 THEN /\ pc' = [pc EXCEPT ![j] = "rejected"]
                      /\ response' = [response EXCEPT ![j] =
                                        Response(400, "No music file uploaded", NoWrapped)]
               ELSE /\ pc' = [pc EXCEPT ![j] = "validateVideos"]
                    /\ response' = response
  /\ UNCHANGED <<muxedTimes, probeInput, succeeded, i, processedVideos, running, probeLog,
                 invoked, touched, unlinked, unlinkFailed, muxed, result>>

\* A validateVideos that returns after its first file.
AfterValidVideoSkip(k, n) == "validateMusic"

\* Where validateVideos goes after a file that passed: the next file of the
\* for-of loop, or back to the caller, which awaits validateMusic next.
AfterValidVideo(k, n) == IF k + 1 < n THEN "validateVideos" ELSE "validateMusic"

\* One iteration of the validateVideos loop: await getVideoMetadata of the
\* next file in submission order, then the three checks.
ProbeVideo(j, md) ==
  /\ pc[j] = "validateVideos"
  /\ LET file == videoFiles[j][i[j] + 1]
         verdict == ValidateVideo(IF fs[file.path].exists THEN md ELSE ProbeFailed, file)
     IN /\ probeLog' = [probeLog EXCEPT ![j] = Append(@, [file |-> file, verdict |-> verdict])]
        /\ IF Throws(verdict)
             THEN /\ Throw(j, verdict)
                  /\ i' = i
             ELSE /\ pc' = [pc EXCEPT ![j] = AfterValidVideo(i[j], Len(videoFiles[j]))]
                  /\ i' = [i EXCEPT ![j] = IF i[j] + 1 < Len(videoFiles[j]) THEN i[j] + 1 ELSE 0]
                  /\ UNCHANGED <<result, response>>
  /\ UNCHANGED <<submitted, muxedTimes, probeInput, succeeded, fs, videoFiles, musicFile, processedVideos, running, invoked,
                 touched, unlinked, unlinkFailed, muxed>>

\* validateMusic: await getVideoMetadata of the music file, then the two checks.
ProbeMusic(j, md) ==
  /\ pc[j] = "validateMusic"
  /\ LET file == musicFile[j]
         verdict == ValidateMusic(IF fs[file.path].exists THEN md ELSE ProbeFailed, file)
     IN /\ probeLog' = [probeLog EXCEPT ![j] = Append(@, [file |-> file, verdict |-> verdict])]
        /\ IF Throws(verdict)
             THEN Throw(j, verdict)
             ELSE /\ pc' = [pc EXCEPT ![j] = "processVideo"]
                  /\ UNCHANGED <<result, response>>
  /\ UNCHANGED <<submitted, muxedTimes, probeInput, succeeded, fs, videoFiles, musicFile, i, processedVideos, running, invoked,
                 touched, unlinked, unlinkFailed, muxed>>


\* ---------------------------------------------------------- encode stages
\* A loop that stops after its first iteration.
AfterProcessVideoEarly(k, n) == "writeFileList"

\* The processVideo loop `for (let i = 0; i < videoFiles.length; i++)`: after
\* the await of index k has resolved, the next iteration or the manifest.
AfterProcessVideo(k, n) == IF k + 1 < n THEN "processVideo" ELSE "writeFileList"

\* An "error" handler that only logs.
RejectsNever(ok) == FALSE

\* .on("end", () => resolve()) / .on("error", (err) => reject(err)): the
\* awaited promise of an engine run rejects exactly when the run failed.
Rejects(ok) == ~ok

\* processVideo(video.path, processedPath) is called: ffmpeg starts.
NormalizeStart(j) ==
  /\ pc[j] = "processVideo"
  /\ pc' = [pc EXCEPT ![j] = "awaitProcessVideo"]
  /\ running' = [running EXCEPT ![j] = @ \cup {Invocation("normalize", i[j])}]
  /\ invoked' = [invoked EXCEPT ![j] = Append(@, Invocation("normalize", i[j]))]
  /\ touched' = [touched EXCEPT ![j] = @ \cup {ProcessedPath(i[j])}]
  /\ UNCHANGED <<submitted, muxedTimes, probeInput, succeeded, fs, videoFiles, musicFile, i, processedVideos, probeLog,
                 unlinked, unlinkFailed, muxed, result, response>>

\* ffmpeg's "end" or "error" event of the processVideo promise.  ok: the
\* engine succeeded (it cannot when its input is not readable); wrote: a
\* failed run had already created its output file.
NormalizeEnd(j, ok, wrote) ==
  /\ pc[j] = "awaitProcessVideo"
  /\ Invocation("normalize", i[j]) \in running[j]
  /\ LET in == videoFiles[j][i[j] + 1].path
         out == ProcessedPath(i[j])
     IN /\ ok => (wrote /\ Readable(fs[in]))
        /\ fs' = IF ok THEN [fs EXCEPT ![out] = MkFile(j, TRUE, fs[in].data)]
                 ELSE IF wrote THEN [fs EXCEPT ![out] = MkFile(j, FALSE, <<>>)]
                 ELSE fs
        /\ running' = [running EXCEPT ![j] = @ \ {Invocation("normalize", i[j])}]
        /\ IF ~Rejects(ok)
             THEN /\ processedVideos' = [processedVideos EXCEPT ![j] = Append(@, out)]
                  /\ i' = [i EXCEPT ![j] = @ + 1]
                  /\ pc' = [pc EXCEPT ![j] = AfterProcessVideo(i[j], Len(videoFiles[j]))]
                  /\ UNCHANGED <<result, response>>
             ELSE /\ Throw(j, EngineError)
                  /\ UNCHANGED <<processedVideos, i>>
  /\ succeeded' = [succeeded EXCEPT ![j] = IF ok THEN @ \cup {Invocation("normalize", i[j])} ELSE @]
  /\ UNCHANGED <<submitted, muxedTimes, probeInput, videoFiles, musicFile, probeLog, invoked, touched, unlinked,
                 unlinkFailed, muxed>>

\* A manifest of every processed file temp/ can hold.
FileListOfDirectory(processed) == [k \in 1..MaxVideos |-> ProcessedPath(k - 1)]

\* processedVideos.map(file => `file '${file}'`).join("\n"): the manifest
\* lists the processed paths in array order.
FileList(processed) == [k \in 1..Len(processed) |-> processed[k]]

\* await fs.writeFile(listPath, fileList)
WriteFileList(j, ok) ==
  /\ pc[j] = "writeFileList"
  /\ touched' = [touched EXCEPT ![j] = @ \cup {listPath}]
  /\ IF ok
       THEN /\ fs' = [fs EXCEPT ![listPath] = MkFile(j, TRUE, FileList(processedVideos[j]))]
            /\ pc' = [pc EXCEPT ![j] = "concat"]
            /\ UNCHANGED <<result, response>>
       ELSE /\ fs' = fs
            /\ Throw(j, WriteError)
  /\ UNCHANGED <<submitted, muxedTimes, probeInput, succeeded, videoFiles, musicFile, i, processedVideos, running, probeLog,
                 invoked, unlinked, unlinkFailed, muxed>>

\* The concatenation promise is created: ffmpeg starts in concat mode over
\* listPath.
ConcatStart(j) ==
  /\ pc[j] = "concat"
  /\ pc' = [pc EXCEPT ![j] = "awaitConcat"]
  /\ running' = [running EXCEPT ![j] = @ \cup {Invocation("concat", 0)}]
  /\ invoked' = [invoked EXCEPT ![j] = Append(@, Invocation("concat", 0))]
  /\ touched' = [touched EXCEPT ![j] = @ \cup {listPath, concatenatedPath}]
  /\ UNCHANGED <<submitted, muxedTimes, probeInput, succeeded, fs, videoFiles, musicFile, i, processedVideos, probeLog,
                 unlinked, unlinkFailed, muxed, result, response>>

\* The media of the files a manifest lists, joined in manifest order.
RECURSIVE ConcatData(_, _)
ConcatData(listed, files) ==
  IF listed = <<>> THEN <<>>
  ELSE files[Head(listed)].data \o ConcatData(Tail(listed), files)

\* ffmpeg's "end" or "error" event of the concatenation promise: the engine
\* reads the manifest that is at listPath and the files it lists.
ConcatEnd(j, ok, wrote) ==
  /\ pc[j] = "awaitConcat"
  /\ Invocation("concat", 0) \in running[j]
  /\ LET listed == fs[listPath].data
     IN /\ ok => /\ wrote
                 /\ Readable(fs[listPath])
                 /\ \A k \in 1..Len(listed) : Readable(fs[listed[k]])
        /\ fs' = IF ok THEN [fs EXCEPT ![concatenatedPath] = MkFile(j, TRUE, ConcatData(listed, fs))]
                 ELSE IF wrote THEN [fs EXCEPT ![concatenatedPath] = MkFile(j, FALSE, <<>>)]
                 ELSE fs
        /\ touched' = [touched EXCEPT ![j] =
                         @ \cup (IF fs[listPath].exists THEN {listed[k] : k \in 1..Len(listed)} ELSE {})]
  /\ running' = [running EXCEPT ![j] = @ \ {Invocation("concat", 0)}]
  /\ IF ~Rejects(ok)
       THEN /\ pc' = [pc EXCEPT ![j] = "mux"]
            /\ UNCHANGED <<result, response>>
       ELSE Throw(j, EngineError)
  /\ succeeded' = [succeeded EXCEPT ![j] = IF ok THEN @ \cup {Invocation("concat", 0)} ELSE @]
  /\ UNCHANGED <<submitted, muxedTimes, probeInput, videoFiles, musicFile, i, processedVideos, probeLog, invoked,
                 unlinked, unlinkFailed, muxed>>

\* The play time in seconds of the media of one uploaded file: the first
\* video of a request runs 3 s, every later one 2 s, the music 4 s.
SourceDuration(name) ==
  IF name.field = "music" THEN 4 ELSE IF name.idx = 0 THEN 3 ELSE 2

\* The play time of media joined from uploaded files.
RECURSIVE MediaDuration(_)
MediaDuration(data) ==
  IF data = <<>> THEN 0 ELSE SourceDuration(Head(data)) + MediaDuration(Tail(data))

\* The outputOptions of the mux invocation.
muxOptions ==
  {"-c:v copy", "-c:a aac", "-b:a 192k", "-shortest", "-map 0:v:0", "-map 1:a:0",
   "-movflags +faststart"}

\* A mux that runs to the end of its longest input.
MuxDurationLongest(options, dv, da) == IF dv >= da THEN dv ELSE da

\* How long ffmpeg's output of one video and one audio stream runs: with
\* -shortest it ends with the shorter stream, without with the longer one.
MuxDuration(options, dv, da) ==
  IF "-shortest" \in options
    THEN (IF dv <= da THEN dv ELSE da)
  ELSE (IF dv >= da THEN dv ELSE da)

\* A mux that takes the first processed file as its video input.
MuxInputsRaw(music) == [video |-> ProcessedPath(0), audio |-> music.path]

\* ffmpeg().input(concatenatedPath).input(musicFile.path): input 0 gives the
\* video, input 1 the audio.
MuxInputs(music) == [video |-> concatenatedPath, audio |-> music.path]

\* The mux promise is created: ffmpeg starts over concatenatedPath and
\* musicFile.path.
MuxStart(j) ==
  /\ pc[j] = "mux"
  /\ pc' = [pc EXCEPT ![j] = "awaitMux"]
  /\ running' = [running EXCEPT ![j] = @ \cup {Invocation("mux", 0)}]
  /\ invoked' = [invoked EXCEPT ![j] = Append(@, Invocation("mux", 0))]
  /\ touched' = [touched EXCEPT ![j] = @ \cup {concatenatedPath}]
  /\ UNCHANGED <<submitted, muxedTimes, probeInput, succeeded, fs, videoFiles, musicFile, i, processedVideos, probeLog,
                 unlinked, unlinkFailed, muxed, result, response>>

\* ffmpeg's "end" or "error" event of the mux promise: video of input 0,
\* audio of input 1, written to outputPath.
MuxEnd(j, ok, wrote) ==
  /\ pc[j] = "awaitMux"
  /\ Invocation("mux", 0) \in running[j]
  /\ LET video == fs[MuxInputs(musicFile[j]).video]
         audio == fs[MuxInputs(musicFile[j]).audio]
     IN /\ ok => (wrote /\ Readable(video) /\ Readable(audio))
        /\ fs' = IF ok THEN [fs EXCEPT ![outputPath] = MkFile(j, TRUE, video.data \o audio.data)]
                 ELSE IF wrote THEN [fs EXCEPT ![outputPath] = MkFile(j, FALSE, <<>>)]
                 ELSE fs
        /\ muxed' = [muxed EXCEPT ![j] = IF ok THEN video.data \o audio.data ELSE @]
        /\ muxedTimes' = [muxedTimes EXCEPT ![j] =
                            IF ok THEN Times(MediaDuration(video.data), MediaDuration(audio.data),
                                             MuxDuration(muxOptions, MediaDuration(video.data),
                                                         MediaDuration(audio.data)))
                            ELSE @]
  /\ running' = [running EXCEPT ![j] = @ \ {Invocation("mux", 0)}]
  /\ IF ~Rejects(ok)
       THEN /\ pc' = [pc EXCEPT ![j] = "cleanup"]
            /\ UNCHANGED <<result, response>>
       ELSE Throw(j, EngineError)
  /\ succeeded' = [succeeded EXCEPT ![j] = IF ok THEN @ \cup {Invocation("mux", 0)} ELSE @]
  /\ UNCHANGED <<submitted, probeInput, videoFiles, musicFile, i, processedVideos, probeLog, invoked,
                 touched, unlinked, unlinkFailed>>


\* ------------------------------------------------------------------ cleanup
\* The outcomes of one sweep of fs.unlink calls over targets: the set of
\* rejected unlinks.  An unlink of a path that is not there is always
\* rejected (ENOENT); besides those the environment (a directory that
\* cannot be written) either rejects none or all of them.
UnlinkFailures(targets, files) ==
  LET absent == {p \in targets : ~files[p].exists}
  IN {absent, targets}

\* A sweep that also unlinks the file it is about to return.
CleanupTargetsAll(processed) ==
  {processed[k] : k \in 1..Len(processed)} \cup {listPath, concatenatedPath, outputPath}

\* The paths the Promise.all of the success path unlinks: every entry of
\* processedVideos, listPath and concatenatedPath.
CleanupTargets(processed) ==
  {processed[k] : k \in 1..Len(processed)} \cup {listPath, concatenatedPath}

\* A sweep whose unlinks carry no .catch: the first rejection makes the
\* Promise.all reject and the catch block wraps it.
CleanupResultRaising(failed) ==
  IF failed = {} THEN Returned(outputPath) ELSE Thrown(Message("unlink error", NoName))

\* Every unlink of the sweep carries .catch(err => console.error(...)), so
\* the Promise.all resolves whatever failed and outputPath is returned.
CleanupResult(failed) == Returned(outputPath)

\* "Cleaning up temporary files": the unlinks in failed are rejected, the
\* others remove the file.
Cleanup(j, failed) ==
  /\ pc[j] = "cleanup"
  /\ LET targets == CleanupTargets(processedVideos[j])
     IN /\ failed \in UnlinkFailures(targets, fs)
        /\ fs' = [p \in Paths |-> IF p \in targets \ failed THEN NoFile ELSE fs[p]]
        /\ unlinked' = [unlinked EXCEPT ![j] = @ \cup targets]
        /\ unlinkFailed' = [unlinkFailed EXCEPT ![j] = @ \cup failed]
        /\ touched' = [touched EXCEPT ![j] = @ \cup (targets \cap TempPaths)]
  /\ result' = [result EXCEPT ![j] = CleanupResult(failed)]
  /\ IF CleanupResult(failed).status = "returned"
       THEN /\ pc' = [pc EXCEPT ![j] = "sending"]
            /\ response' = response
       ELSE /\ pc' = [pc EXCEPT ![j] = "failed"]
            /\ response' = [response EXCEPT ![j] =
                              Response(500, "Merge failed", CleanupResult(failed).message)]
  /\ UNCHANGED <<submitted, muxedTimes, probeInput, succeeded, videoFiles, musicFile, i, processedVideos, running, probeLog,
                 invoked, muxed>>

\* The paths the res.download callback unlinks: every uploaded video and the
\* uploaded music file.
UploadTargets(videos, music) == {videos[k].path : k \in 1..Len(videos)} \cup {music.path}

\* The callback of res.download(outputPath, "merged.mp4", cb): err is the
\* send error, headersSent what res.headersSent is then; the uploads are
\* unlinked whatever err is, each rejection only logged.
DownloadCallback(j, err, headersSent, failed) ==
  /\ pc[j] = "sending"
  /\ ~err => headersSent
  /\ LET targets == UploadTargets(videoFiles[j], musicFile[j])
     IN /\ failed \in UnlinkFailures(targets, fs)
        /\ fs' = [p \in Paths |-> IF p \in targets \ failed THEN NoFile ELSE fs[p]]
        /\ unlinked' = [unlinked EXCEPT ![j] = @ \cup targets]
        /\ unlinkFailed' = [unlinkFailed EXCEPT ![j] = @ \cup failed]
  /\ response' = [response EXCEPT ![j] =
                    IF err /\ ~headersSent
                      THEN Response(500, "Error sending merged file", NoWrapped)
                      ELSE Response(200, "", NoWrapped)]
  /\ pc' = [pc EXCEPT ![j] = "done"]
  /\ UNCHANGED <<submitted, muxedTimes, probeInput, succeeded, videoFiles, musicFile, i, processedVideos, running, probeLog,
                 invoked, touched, muxed, result>>

\* -------------------------------------------------------------- the system
\* The file counts the requests of the model carry: every count of videos up
\* to the model's bound and one more than the route allows; no, one and one
\* more than the allowed number of music files.
SubmittedVideos == (0..MaxVideos) \cup {maxVideoCount + 1}

SubmittedMusic == 0..(maxMusicCount + 1)

Next ==
  \/ \E j \in Jobs, n \in SubmittedVideos, mc \in SubmittedMusic : ReceiveRequest(j, n, mc)
  \/ \E j \in Jobs, md \in VideoMetadataSet : ProbeVideo(j, md)
  \/ \E j \in Jobs, md \in MusicMetadataSet : ProbeMusic(j, md)
  \/ \E j \in Jobs : NormalizeStart(j)
  \/ \E j \in Jobs, ok \in BOOLEAN, wrote \in BOOLEAN : NormalizeEnd(j, ok, wrote)
  \/ \E j \in Jobs, ok \in BOOLEAN : WriteFileList(j, ok)
  \/ \E j \in Jobs : ConcatStart(j)
  \/ \E j \in Jobs, ok \in BOOLEAN, wrote \in BOOLEAN : ConcatEnd(j, ok, wrote)
  \/ \E j \in Jobs : MuxStart(j)
  \/ \E j \in Jobs, ok \in BOOLEAN, wrote \in BOOLEAN : MuxEnd(j, ok, wrote)
  \/ \E j \in Jobs, failed \in SUBSET TempPaths : Cleanup(j, failed)
  \/ \E j \in Jobs, err \in BOOLEAN, headersSent \in BOOLEAN, failed \in SUBSET UploadPaths :
       DownloadCallback(j, err, headersSent, failed)

Spec == Init /\ [][Next]_vars

\* The engine of the invocation or probe request j awaits never emits "end"
\* or "error": the promise the request awaits is settled by these two
\* handlers only, so the request stays where it is.
EngineHangs(j) ==
  /\ pc[j] \in {"validateVideos", "validateMusic", "awaitProcessVideo", "awaitConcat", "awaitMux"}
  /\ pc' = [pc EXCEPT ![j] = "hung"]
  /\ UNCHANGED <<submitted, muxedTimes, probeInput, succeeded, fs, videoFiles, musicFile, i,
                 processedVideos, running, probeLog, invoked, touched, unlinked, unlinkFailed,
                 muxed, result, response>>

NextHang ==
  \/ Next
  \/ \E j \in Jobs : EngineHangs(j)

\* The server with engines that may hang.  The event loop runs every
\* continuation that is ready and an engine that does not hang ends: no
\* behaviour stops while a step of Next can be taken.
HangSpec == Init /\ [][NextHang]_vars /\ WF_vars(Next)


\* No request other than j is being handled: each of the others has not
\* arrived yet or has been answered.
Quiet(j) == \A o \in Jobs \ {j} : pc[o] \in {"idle", "rejected", "done", "failed"}

\* The server with clients that send a request only when no other request
\* is being handled: the steps of Next in which a request that arrives
\* finds the server quiet.
NextSequential ==
  /\ Next
  /\ \A j \in Jobs : (pc[j] = "idle" /\ pc'[j] # "idle") => Quiet(j)

SequentialSpec == Init /\ [][NextSequential]_vars

\* Validation alone, over every ffprobe result of ProbeInputs: one request
\* of 1..MaxVideos videos and a music file arrives and validateVideos and
\* validateMusic run on it, ffprobe returning the chosen result.
InitValidation ==
  /\ InitPipeline
  /\ probeInput \in ProbeInputs

NextValidation ==
  \/ \E n \in 1..MaxVideos : ReceiveRequest("A", n, maxMusicCount)
  \/ ProbeVideo("A", probeInput.video)
  \/ ProbeMusic("A", probeInput.music)

ValidationSpec == InitValidation /\ [][NextValidation]_vars


\* ================================================================== claims
\* mergeVideosWithMusic of request j has returned or thrown.
Terminated(j) == result[j].status # "pending"

\* Request j is inside mergeVideosWithMusic.
InFlight(j) ==
  pc[j] \in {"validateVideos", "validateMusic", "processVideo", "awaitProcessVideo",
             "writeFileList", "concat", "awaitConcat", "mux", "awaitMux", "cleanup"}

\* The k-th input of request j in the order validation takes them: the
\* videos in submission order, then the music file.
InputAt(j, k) == IF k <= Len(videoFiles[j]) THEN videoFiles[j][k] ELSE musicFile[j]

\* Invocation v is in the log of started invocations.
Started(j, v) == \E k \in 1..Len(invoked[j]) : invoked[j][k] = v

\* C1 (as claimed): once mergeVideosWithMusic of a request has returned or
\* thrown, no file of temp/ written by that request (processed_<i>.mp4,
\* filelist.txt, concatenated.mp4) is left.
C1_NoIntermediateSurvives ==
  \A j \in Jobs : Terminated(j) =>
    \A p \in TempPaths : ~(fs[p].exists /\ fs[p].by = j)

\* C2: within one request at most one engine invocation runs at a time; the
\* concat invocation is started only after the normalize invocation of every
\* video has ended without error, and the mux invocation only after the
\* concat invocation has ended without error.
C2_StagesOrdered ==
  \A j \in Jobs :
    /\ Cardinality(running[j]) <= 1
    /\ Started(j, Invocation("concat", 0)) =>
         \A k \in 0..(Len(videoFiles[j]) - 1) : Invocation("normalize", k) \in succeeded[j]
    /\ Started(j, Invocation("mux", 0)) => Invocation("concat", 0) \in succeeded[j]
    /\ \A v \in running[j] :
         /\ v.kind = "concat" => \A w \in succeeded[j] : w.kind = "normalize"
         /\ v.kind = "normalize" => succeeded[j] = {Invocation("normalize", k) : k \in 0..(v.idx - 1)}

\* C2 witness: a request with more than one video whose mux invocation is
\* running.
C2_Witness ==
  \E j \in Jobs : Len(videoFiles[j]) >= 2 /\ Invocation("mux", 0) \in running[j]

\* C3: a request starts an encode invocation (normalize, concat, mux) only
\* when every video and the music file have been probed and passed; a
\* request with an input that failed validation has failed and has started
\* none.
C3_ValidatedBeforeEncode ==
  \A j \in Jobs :
    /\ invoked[j] # <<>> =>
         /\ Len(probeLog[j]) = Len(videoFiles[j]) + 1
         /\ \A k \in 1..Len(probeLog[j]) :
              probeLog[j][k] = [file |-> InputAt(j, k), verdict |-> NoError]
    /\ (\E k \in 1..Len(probeLog[j]) : probeLog[j][k].verdict # NoError) =>
         /\ invoked[j] = <<>>
         /\ running[j] = {}
         /\ pc[j] = "failed"

\* C3 witness: one request has failed on a video with an unsupported codec
\* and started nothing, while another has started all its encode stages.
C3_Witness ==
  \E a, b \in Jobs :
    /\ pc[a] = "failed"
    /\ probeLog[a][Len(probeLog[a])].verdict.text = "Unsupported video codec in"
    /\ invoked[a] = <<>>
    /\ Started(b, Invocation("mux", 0))

\* The part of C4 that does not depend on what the error embeds: inputs are
\* probed one at a time in submission order, videos first, then the music
\* file; nothing is probed after a failing input; the job error is the
\* wrapped error of that input.
FailFastInOrder(j) ==
  /\ Len(probeLog[j]) <= Len(videoFiles[j]) + 1
  /\ \A k \in 1..Len(probeLog[j]) :
       /\ probeLog[j][k].file = InputAt(j, k)
       /\ k < Len(probeLog[j]) => probeLog[j][k].verdict = NoError
  /\ \A k \in 1..Len(probeLog[j]) : probeLog[j][k].verdict # NoError =>
       /\ result[j] = Thrown(probeLog[j][k].verdict)
       /\ response[j].details = WrapError(probeLog[j][k].verdict)

StagesSucceeded(j) == Invocation("mux", 0) \in succeeded[j]

\* The media a final artifact of request j holds when it is built from j's
\* own inputs: its videos in submission order, then its music.
ExpectedMedia(j) ==
  [k \in 1..(Len(videoFiles[j]) + 1) |->
     IF k <= Len(videoFiles[j]) THEN OriginalName(j, "videos", k - 1)
     ELSE OriginalName(j, "music", 0)]

\* C5 (as claimed): a request whose stages all succeeded has started
\* normalize exactly once per video, index by index, then concat and mux;
\* its processed paths are processed_0 .. processed_<N-1> in order; and the
\* final artifact its mux wrote plays its own videos in submission order.
C5_SubmissionOrder ==
  \A j \in Jobs : StagesSucceeded(j) =>
    /\ invoked[j] = [k \in 1..(Len(videoFiles[j]) + 2) |->
                       IF k <= Len(videoFiles[j]) THEN Invocation("normalize", k - 1)
                       ELSE IF k = Len(videoFiles[j]) + 1 THEN Invocation("concat", 0)
                       ELSE Invocation("mux", 0)]
    /\ processedVideos[j] = [k \in 1..Len(videoFiles[j]) |-> ProcessedPath(k - 1)]
    /\ muxed[j] = ExpectedMedia(j)

\* C6 (as claimed): two requests that are both inside mergeVideosWithMusic
\* have written, read and unlinked disjoint sets of temp/ paths.
C6_DisjointTempPaths ==
  \A a, b \in Jobs : (a # b /\ InFlight(a) /\ InFlight(b)) =>
    touched[a] \cap touched[b] = {}

\* C7 (as claimed): when one request has failed, the final artifact another
\* request has built holds exactly what it holds when that request runs
\* alone: its own videos in submission order and its own music.
C7_Independent ==
  \A a, b \in Jobs : (a # b /\ pc[a] = "failed" /\ StagesSucceeded(b)) =>
    muxed[b] = ExpectedMedia(b)

\* C8 (as claimed): when a request has ended, with the file sent or with the
\* failure answered, fs.unlink has been called on each of its uploaded videos
\* and on its uploaded music file.
C8_UploadsUnlinked ==
  \A j \in Jobs : pc[j] \in {"done", "failed"} =>
    UploadTargets(videoFiles[j], musicFile[j]) \subseteq unlinked[j]

\* C9: a rejected unlink never changes the result: a request whose four
\* stages succeeded returns outputPath once the sweep is over, whatever
\* unlinks were rejected, and is answered by the download; a request that
\* threw failed in a stage, before any unlink, and its error wraps a
\* validation, engine or write error.
C9_CleanupNeverChangesResult ==
  \A j \in Jobs :
    /\ (StagesSucceeded(j) /\ pc[j] # "cleanup") =>
         /\ result[j] = Returned(outputPath)
         /\ pc[j] \in {"sending", "done"}
    /\ pc[j] = "done" => response[j].error \in {"", "Error sending merged file"}
    /\ result[j].status = "thrown" =>
         /\ ~StagesSucceeded(j)
         /\ unlinked[j] = {}
         /\ pc[j] = "failed"
         /\ response[j] = Response(500, "Merge failed", result[j].message)
         /\ \/ result[j].message.cause \in {EngineError, WriteError}
            \/ /\ probeLog[j] # <<>>
               /\ result[j].message.cause = probeLog[j][Len(probeLog[j])].verdict

\* C9 witness: a request is done, an unlink of an intermediate and an unlink
\* of an upload were rejected, and it returned outputPath and was answered
\* with the file.
C9_Witness ==
  \E j \in Jobs :
    /\ pc[j] = "done"
    /\ unlinkFailed[j] \cap TempPaths # {}
    /\ unlinkFailed[j] \cap UploadPaths # {}
    /\ result[j] = Returned(outputPath)
    /\ response[j].code = 200

\* C10: no request ever calls fs.unlink on outputPath, and from the moment a
\* mux invocation has succeeded the final artifact is there: while it is
\* returned, while it is sent and afterwards.
C10_FinalArtifactKept ==
  /\ \A j \in Jobs : outputPath \notin unlinked[j]
  /\ (\E j \in Jobs : StagesSucceeded(j)) => fs[outputPath].exists

\* C10 witness: a request is sending its final artifact after its sweep
\* unlinked the intermediates it wrote, and another request has finished its
\* upload deletion.
C10_Witness ==
  \E a, b \in Jobs :
    /\ pc[a] = "sending"
    /\ CleanupTargets(processedVideos[a]) \subseteq unlinked[a]
    /\ pc[b] = "done"
    /\ UploadTargets(videoFiles[b], musicFile[b]) \subseteq unlinked[b]
    /\ fs[outputPath].exists


\* Validation, every normalization, the concatenation and the muxing of
\* request j have ended without error.
AllStagesSucceeded(j) ==
  /\ Len(probeLog[j]) = Len(videoFiles[j]) + 1
  /\ \A k \in 1..Len(probeLog[j]) : probeLog[j][k].verdict = NoError
  /\ \A k \in 0..(Len(videoFiles[j]) - 1) : Invocation("normalize", k) \in succeeded[j]
  /\ Invocation("concat", 0) \in succeeded[j]
  /\ Invocation("mux", 0) \in succeeded[j]

\* The outcome of a request is one of returned and thrown; it is returned,
\* with the path of the final artifact, exactly when all stages succeeded,
\* and a request whose stages all succeeded does return; with an outcome no
\* engine invocation of the request is running.
OutcomeMatchesStages(j) ==
  /\ Terminated(j) =>
       /\ result[j].status \in {"returned", "thrown"}
       /\ result[j].status = "returned" <=> AllStagesSucceeded(j)
       /\ result[j].status = "returned" => result[j] = Returned(outputPath)
       /\ result[j].status = "thrown" => pc[j] = "failed" /\ result[j].message # NoWrapped
       /\ running[j] = {}
  /\ AllStagesSucceeded(j) => pc[j] \in {"cleanup", "sending", "done"}
  /\ pc[j] \in {"sending", "done", "failed"} => Terminated(j)

\* A step that leaves the stages of request j as they are: nothing is
\* probed, no invocation starts or ends, the outcome stays.
NoStageRuns(j) ==
  /\ probeLog'[j] = probeLog[j]
  /\ invoked'[j] = invoked[j]
  /\ running'[j] = running[j]
  /\ succeeded'[j] = succeeded[j]
  /\ result'[j] = result[j]

\* C11: a request ends in exactly one of two outcomes: it returns the path
\* of the final artifact if and only if validation, every normalization,
\* concatenation and muxing succeeded, and throws a job error otherwise;
\* once it has returned or thrown, no stage of it runs any more.
C11_TwoOutcomes ==
  /\ [](\A j \in Jobs : OutcomeMatchesStages(j))
  /\ [][\A j \in Jobs : Terminated(j) => NoStageRuns(j)]_vars

\* C11 witness: one request has thrown after its mux invocation failed, its
\* normalizations and its concatenation having succeeded, and another has
\* returned the final path and has been answered.
C11_Witness ==
  \E a, b \in Jobs :
    /\ result[a].status = "thrown"
    /\ Started(a, Invocation("mux", 0))
    /\ Invocation("concat", 0) \in succeeded[a]
    /\ result[b] = Returned(outputPath)
    /\ pc[b] = "done"

\* The stage in which a failed request failed: validation when its last
\* probed input was rejected; otherwise the stage of its last invocation
\* when that failed, and concatenation when the manifest could not be
\* written after the last normalization.
FailedStage(j) ==
  IF probeLog[j] # <<>> /\ probeLog[j][Len(probeLog[j])].verdict # NoError THEN "validation"
  ELSE IF invoked[j] = <<>> THEN "validation"
  ELSE LET last == invoked[j][Len(invoked[j])]
       IN IF last.kind = "normalize" /\ last \notin succeeded[j] THEN "normalization"
          ELSE IF last.kind = "mux" THEN "muxing"
          ELSE "concatenation"

\* C12 (as claimed): the errors of two requests that failed in different
\* stages differ, so that the caller can tell the stage from the error.
C12_ErrorTellsStage ==
  \A a, b \in Jobs :
    (pc[a] = "failed" /\ pc[b] = "failed" /\ FailedStage(a) # FailedStage(b)) =>
      /\ result[a].message # result[b].message
      /\ response[a].details # response[b].details


\* C13 (as claimed): every request that has entered the pipeline ends, with
\* the file sent or with a job error, also when an engine never signals
\* completion or error.
C13_EveryJobTerminates ==
  \A j \in Jobs : (pc[j] = "validateVideos") ~> (pc[j] \in {"done", "failed"})


\* C14: the pipeline is entered only by requests with 1 to 20 videos and
\* exactly one music file, and every such request enters it; a request with
\* no video, with no music file, with more than 20 videos or with more than
\* one music file is rejected, and none of its inputs is ever probed or
\* handed to an engine.
C14_StartedOnlyWithinLimits ==
  \A j \in Jobs :
    /\ pc[j] \notin {"idle", "rejected"} <=>
         (submitted[j].videos \in 1..20 /\ submitted[j].music = 1)
    /\ pc[j] = "rejected" =>
         /\ probeLog[j] = <<>>
         /\ invoked[j] = <<>>
         /\ running[j] = {}
         /\ result[j] = Pending
         /\ response[j].code \in {400, 500}

\* C14 witness: a request with 21 videos and one music file has been
\* rejected while a request within the limits is being validated.
C14_Witness ==
  \E a, b \in Jobs :
    /\ submitted[a] = Counts(21, 1)
    /\ pc[a] = "rejected"
    /\ submitted[b].videos >= 1
    /\ probeLog[b] # <<>>


\* The first stream of kind t in a list that has one.
FirstOfKind(streams, t) ==
  streams[CHOOSE k \in 1..Len(streams) :
            /\ streams[k].codec_type = t
            /\ \A m \in 1..(k - 1) : streams[m].codec_type # t]

HasKind(streams, t) == \E k \in 1..Len(streams) : streams[k].codec_type = t

\* The verdicts validation has given on the videos of request j.
VideoVerdicts(j) ==
  {probeLog[j][k].verdict : k \in {m \in 1..Len(probeLog[j]) : m <= Len(videoFiles[j])}}

\* C15: the resolution ceiling is inclusive: a probed video whose video
\* stream has a listed codec gets the resolution-too-high error if and only
\* if its width exceeds 3840 or its height exceeds 2160, and passes
\* otherwise; 3840x2160 passes and 4096x2160 does not.
C15_CeilingInclusive ==
  \A j \in Jobs : \A verdict \in VideoVerdicts(j) :
    LET md == probeInput.video
    IN (~md.err /\ HasKind(md.streams, "video")
          /\ FirstOfKind(md.streams, "video").codec_name \in {"h264", "hevc", "vp8", "vp9"}) =>
         LET v == FirstOfKind(md.streams, "video")
         IN /\ verdict.text = "Video resolution too high in" <=> (v.width > 3840 \/ v.height > 2160)
            /\ verdict = NoError <=> ~(v.width > 3840 \/ v.height > 2160)
            /\ (v.width = 3840 /\ v.height = 2160) => verdict = NoError
            /\ (v.width = 4096 /\ v.height = 2160) => verdict.text = "Video resolution too high in"

\* C15 witness: a video of exactly 3840x2160 in h264 has passed validation.
C15_Witness ==
  /\ probeInput.video = Probed(<<Stream("video", "h264", 3840, 2160)>>)
  /\ NoError \in VideoVerdicts("A")
  /\ pc["A"] \in {"validateMusic", "processVideo"}


\* C16: the verdict on a video is determined by its probed streams in this
\* order: the no-video-stream error when it has no stream of kind video;
\* else the unsupported-codec error when its video stream's codec is none of
\* h264, hevc, vp8, vp9; else the resolution-too-high error when width or
\* height exceeds the ceiling; else it passes.  Each error names the video.
\* A failed probe is a failure of that video: it ends the validation with
\* the probe's error.
C16_VerdictPrecedence ==
  \A j \in Jobs : \A k \in 1..Len(probeLog[j]) : k <= Len(videoFiles[j]) =>
    LET md == probeInput.video
        verdict == probeLog[j][k].verdict
        named == verdict.name = videoFiles[j][k].originalname
    IN /\ md.err => (verdict = EngineError /\ result[j] = Thrown(EngineError))
       /\ (~md.err /\ ~HasKind(md.streams, "video")) =>
            (verdict.text = "No video stream found in" /\ named)
       /\ (~md.err /\ HasKind(md.streams, "video")) =>
            LET v == FirstOfKind(md.streams, "video")
                listed == v.codec_name \in {"h264", "hevc", "vp8", "vp9"}
                high == v.width > 3840 \/ v.height > 2160
            IN /\ ~listed => (verdict.text = "Unsupported video codec in" /\ named)
               /\ (listed /\ high) => (verdict.text = "Video resolution too high in" /\ named)
               /\ (listed /\ ~high) => verdict = NoError

\* C16 witness: a video whose codec is not listed and whose resolution is
\* above the ceiling has been rejected for its codec.
C16_Witness ==
  /\ probeInput.video = Probed(<<Stream("video", "vp6", 4096, 2161)>>)
  /\ Len(probeLog["A"]) = 1
  /\ probeLog["A"][1].verdict.text = "Unsupported video codec in"
  /\ pc["A"] = "failed"

\* C17: the music file passes if and only if its probe succeeded, it has a
\* stream of kind audio and that stream's codec is one of aac, mp3, opus,
\* vorbis; without an audio stream it gets the no-audio-stream error, with
\* an unlisted codec the unsupported-codec error, and whenever it does not
\* pass the request fails with that error.
C17_AudioVerdict ==
  \A j \in Jobs : Len(probeLog[j]) = Len(videoFiles[j]) + 1 =>
    LET md == probeInput.music
        verdict == probeLog[j][Len(probeLog[j])].verdict
        named == verdict.name = musicFile[j].originalname
        audio == HasKind(md.streams, "audio")
        listed == audio /\ FirstOfKind(md.streams, "audio").codec_name \in {"aac", "mp3", "opus", "vorbis"}
    IN /\ verdict = NoError <=> (~md.err /\ audio /\ listed)
       /\ (~md.err /\ ~audio) => (verdict.text = "No audio stream found in" /\ named)
       /\ (~md.err /\ audio /\ ~listed) => (verdict.text = "Unsupported audio codec in" /\ named)
       /\ verdict # NoError => (pc[j] = "failed" /\ result[j] = Thrown(verdict))
       /\ verdict = NoError => (pc[j] = "processVideo" /\ result[j] = Pending)

\* C17 witness: a music file whose first stream is a video stream and whose
\* audio stream is flac has been rejected for its codec and the request has
\* failed.
C17_Witness ==
  /\ probeInput.music = Probed(<<Stream("video", "h264", 1920, 1080), Stream("audio", "flac", 0, 0)>>)
  /\ Len(probeLog["A"]) = Len(videoFiles["A"]) + 1
  /\ probeLog["A"][Len(probeLog["A"])].verdict.text = "Unsupported audio codec in"
  /\ pc["A"] = "failed"


Existing(files) == {p \in Paths : files[p].exists}

\* C19: a normalize invocation for index k that succeeds writes the path
\* named by k alone, temp/processed_<k>.mp4, whole, and no other path; when
\* an earlier invocation for k has left that file, the new one overwrites
\* it, and the set of files is the same as after the earlier one.
C19_RenormalizeOverwrites ==
  [][\A j \in Jobs : \A k \in 0..(MaxVideos - 1) :
       (Invocation("normalize", k) \notin succeeded[j] /\ Invocation("normalize", k) \in succeeded'[j]) =>
         LET out == MkPath("temp", "-", "processed", k)
         IN /\ out \in DOMAIN fs'
            /\ fs'[out].exists /\ fs'[out].complete /\ fs'[out].by = j
            /\ \A p \in Paths \ {out} : fs'[p] = fs[p]
            /\ Existing(fs') = Existing(fs) \cup {out}
            /\ fs[out].exists => Existing(fs') = Existing(fs)
            /\ processedVideos'[j] = Append(processedVideos[j], out)]_vars

\* C19 witness: normalize has succeeded for index 1 in two requests, the
\* second over the file the first had left; temp/processed_1.mp4 is the
\* only processed file of that index and holds the second's output.
C19_Witness ==
  \E a, b \in Jobs :
    /\ a # b
    /\ Invocation("normalize", 1) \in succeeded[a]
    /\ Invocation("normalize", 1) \in succeeded[b]
    /\ fs[ProcessedPath(1)].exists
    /\ fs[ProcessedPath(1)].by = b
    /\ fs[ProcessedPath(1)].data = <<OriginalName(b, "videos", 1)>>
    /\ Cardinality({p \in Existing(fs) : p.name = "processed" /\ p.idx = 1}) = 1

\* C20: a request whose normalize invocation for some video has failed has
\* failed with that error: that invocation is the last it started, so no
\* later video was normalized and neither concat nor mux was started, and
\* it has not written the manifest.
C20_NormalizeFailFast ==
  \A j \in Jobs : \A k \in 0..(MaxVideos - 1) :
    LET v == Invocation("normalize", k)
    IN (Started(j, v) /\ v \notin running[j] /\ v \notin succeeded[j]) =>
         /\ pc[j] = "failed"
         /\ result[j] = Thrown(EngineError)
         /\ running[j] = {}
         /\ invoked[j] = [m \in 1..(k + 1) |-> Invocation("normalize", m - 1)]
         /\ ~Started(j, Invocation("concat", 0))
         /\ ~Started(j, Invocation("mux", 0))
         /\ listPath \notin touched[j]
         /\ ~(fs[listPath].exists /\ fs[listPath].by = j)

\* C20 witness: a request of two videos has failed in the normalize
\* invocation of its first video and has started nothing else.
C20_Witness ==
  \E j \in Jobs :
    /\ Len(videoFiles[j]) = 2
    /\ invoked[j] = <<Invocation("normalize", 0)>>
    /\ Invocation("normalize", 0) \notin succeeded[j]
    /\ pc[j] = "failed"


\* C21: a request of one video is handled like any other: its manifest is
\* written with the one entry temp/processed_0.mp4, its concat invocation
\* runs and succeeds before its mux invocation starts, and what its mux
\* puts into the final artifact is the video of temp/concatenated.mp4 as it
\* is then, with the music of its own upload.
C21_SingleVideoConcatenated ==
  /\ [](\A j \in Jobs : (Len(videoFiles[j]) = 1 /\ Started(j, Invocation("mux", 0))) =>
          /\ invoked[j] = <<Invocation("normalize", 0), Invocation("concat", 0), Invocation("mux", 0)>>
          /\ Invocation("concat", 0) \in succeeded[j]
          /\ listPath \in touched[j])
  /\ [][\A j \in Jobs : Len(videoFiles[j]) = 1 =>
          /\ (pc[j] = "writeFileList" /\ pc'[j] = "concat") =>
               fs'[listPath] = MkFile(j, TRUE, <<MkPath("temp", "-", "processed", 0)>>)
          /\ (Invocation("mux", 0) \notin succeeded[j] /\ Invocation("mux", 0) \in succeeded'[j]) =>
               /\ muxed'[j] = fs[MkPath("temp", "-", "concatenated.mp4", 0)].data
                                 \o <<OriginalName(j, "music", 0)>>
               /\ fs'[outputPath].data = muxed'[j]]_vars

\* C21 witness: a request of one video is done; its mux succeeded at a time
\* when temp/processed_0.mp4 already held another request's video, and its
\* final artifact plays its own video and its own music.
C21_Witness ==
  \E a, b \in Jobs :
    /\ a # b
    /\ Len(videoFiles[a]) = 1
    /\ pc[a] = "done"
    /\ muxed[a] = <<OriginalName(a, "videos", 0), OriginalName(a, "music", 0)>>
    /\ fs[ProcessedPath(0)].by = b
    /\ ~Started(b, Invocation("concat", 0))


\* The artifact paths invocation v of request j reads or writes: normalize
\* writes the processed file of its index; concat reads the manifest and
\* the processed files and writes the concatenated file; mux reads the
\* concatenated file and writes the final artifact.
ArtifactPaths(j, v) ==
  IF v.kind = "normalize" THEN {ProcessedPath(v.idx)}
  ELSE IF v.kind = "concat"
    THEN {listPath, concatenatedPath} \cup {processedVideos[j][k] : k \in 1..Len(processedVideos[j])}
  ELSE {concatenatedPath, outputPath}

\* C22 (as claimed): no two engine invocations that are running at the same
\* time, of the same or of different requests, touch a common artifact
\* path.
C22_OneInvocationPerArtifact ==
  \A a, b \in Jobs : \A v \in running[a] : \A w \in running[b] :
    (a # b \/ v # w) => ArtifactPaths(a, v) \cap ArtifactPaths(b, w) = {}


\* The uploads of request j are as multer stored them.
UploadsIntact(j) ==
  /\ \A k \in 1..Len(videoFiles[j]) :
       fs[videoFiles[j][k].path] = MkFile(j, TRUE, <<OriginalName(j, "videos", k - 1)>>)
  /\ fs[musicFile[j].path] = MkFile(j, TRUE, <<OriginalName(j, "music", 0)>>)

\* C23: fs.unlink is called on an upload of a request only in the callback
\* of the file send, after mergeVideosWithMusic has returned; as long as
\* the request is in the pipeline or sending, its uploads are as stored, so
\* the audio its mux puts into the final artifact is its own music.
C23_UploadsKeptUntilSent ==
  \A j \in Jobs :
    /\ unlinked[j] \cap UploadPaths # {} =>
         (pc[j] = "done" /\ result[j].status = "returned")
    /\ (InFlight(j) \/ pc[j] = "sending") => UploadsIntact(j)
    /\ StagesSucceeded(j) =>
         (muxed[j] # <<>> /\ muxed[j][Len(muxed[j])] = OriginalName(j, "music", 0))

\* C23 witness: one request has been sent and its uploads unlinked while
\* the mux invocation of another is running over uploads that are intact.
C23_Witness ==
  \E a, b \in Jobs :
    /\ pc[a] = "done"
    /\ UploadTargets(videoFiles[a], musicFile[a]) \subseteq unlinked[a]
    /\ \A p \in UploadTargets(videoFiles[a], musicFile[a]) : ~fs[p].exists
    /\ Invocation("mux", 0) \in running[b]
    /\ UploadsIntact(b)


\* C24 (as claimed): while the final artifact of a request is being sent,
\* the file at the returned path is the whole output of that request's own
\* mux invocation.
C24_SentFileIsOwn ==
  \A j \in Jobs : pc[j] = "sending" =>
    fs[result[j].path] = MkFile(j, TRUE, muxed[j])


\* C25: when requests are handled one after another, the concat invocation
\* of a request that succeeds has read a manifest written by that request,
\* listing its own processed files and nothing else, each written by it
\* from its own video; its mux has read the concatenated file and the music
\* it wrote itself; and its final artifact plays its own videos and music,
\* whatever earlier requests have left in temp/ and outputs/.
C25_SequentialReadsOwn ==
  /\ [](\A j \in Jobs : StagesSucceeded(j) => muxed[j] = ExpectedMedia(j))
  /\ [][\A j \in Jobs :
          /\ (Invocation("concat", 0) \notin succeeded[j] /\ Invocation("concat", 0) \in succeeded'[j]) =>
               /\ fs[listPath] =
                    MkFile(j, TRUE, [k \in 1..Len(videoFiles[j]) |-> MkPath("temp", "-", "processed", k - 1)])
               /\ \A k \in 1..Len(fs[listPath].data) :
                    fs[fs[listPath].data[k]] = MkFile(j, TRUE, <<OriginalName(j, "videos", k - 1)>>)
          /\ (Invocation("mux", 0) \notin succeeded[j] /\ Invocation("mux", 0) \in succeeded'[j]) =>
               /\ fs[concatenatedPath].by = j
               /\ fs[concatenatedPath].complete
               /\ fs[musicFile[j].path].by = j]_vars

\* C25 witness: a request of one video is done with an artifact of its own
\* video and music, while temp/processed_1.mp4 and temp/concatenated.mp4
\* are still there from an earlier request of two videos.
C25_Witness ==
  \E a, b \in Jobs :
    /\ a # b
    /\ Len(videoFiles[a]) = 2
    /\ pc[a] \in {"done", "failed"}
    /\ fs[ProcessedPath(1)].exists /\ fs[ProcessedPath(1)].by = a
    /\ Len(videoFiles[b]) = 1
    /\ pc[b] = "done"
    /\ muxed[b] = ExpectedMedia(b)
    /\ fs[outputPath] = MkFile(b, TRUE, ExpectedMedia(b))

====
